---- MODULE Spec2Model ----
(***************************************************************************)
(* GEEST weighted-tree editor: JsonTreeItem, JsonTreeModel and             *)
(* CustomTreeView of src/geest/gui/treeview.py as a state machine.         *)
(*                                                                         *)
(* Python values are tagged records, so that a float, a str, None, a dict  *)
(* and a list are never confused:                                          *)
(*   [str |-> <<chars>>]   a str, as the sequence of its characters        *)
(*   [num |-> n, den |-> d] a number n/d (int or float), d > 0             *)
(*   [bool |-> b]  [none |-> TRUE]                                         *)
(*   [dict |-> f]  a dict, f a function from keys to values                *)
(*   [list |-> s]  a list                                                  *)
(***************************************************************************)
EXTENDS Integers, Sequences, FiniteSets, TLC

---------------------------------------------------------------------------
(* Bounds of the model.                                                    *)

\* Handlers run after construction.
MaxSteps == 2
\* JsonTreeItem objects alive at once (root included).
MaxItems == 6
\* The largest number of children of the parents auto-assign is tried on
MaxFanout == 20

---------------------------------------------------------------------------
(* Python values.                                                          *)

Str(s) == [str |-> s]
Num(n, d) == [num |-> n, den |-> d]
Bool(b) == [bool |-> b]
None == [none |-> TRUE]
Dict(f) == [dict |-> f]
List(s) == [list |-> s]

IsStr(v) == DOMAIN v = {"str"}
IsNum(v) == DOMAIN v = {"num", "den"}
IsDict(v) == DOMAIN v = {"dict"}

EmptyDict == Dict(<<>>)

\* dict.get(key, default)
Get(d, key, default) == IF key \in DOMAIN d.dict THEN d.dict[key] ELSE default

\* d[key] = value on a dict
Put(d, key, value) ==
    Dict([k \in DOMAIN d.dict \cup {key} |-> IF k = key THEN value ELSE d.dict[k]])

\* dict.update(other): the keys of other override those of d
Update(d, other) ==
    Dict([k \in DOMAIN d.dict \cup DOMAIN other.dict |->
            IF k \in DOMAIN other.dict THEN other.dict[k] ELSE d.dict[k]])

---------------------------------------------------------------------------
(* Characters and str methods.                                             *)

Lowers == <<"a","b","c","d","e","f","g","h","i","j","k","l","m",
            "n","o","p","q","r","s","t","u","v","w","x","y","z">>
Uppers == <<"A","B","C","D","E","F","G","H","I","J","K","L","M",
            "N","O","P","Q","R","S","T","U","V","W","X","Y","Z">>
Digits == <<"0","1","2","3","4","5","6","7","8","9">>

Range(s) == {s[i] : i \in DOMAIN s}
IndexIn(s, c) == CHOOSE i \in DOMAIN s : s[i] = c

IsLowerChar(c) == c \in Range(Lowers)
IsUpperChar(c) == c \in Range(Uppers)
IsCased(c) == IsLowerChar(c) \/ IsUpperChar(c)
IsDigit(c) == c \in Range(Digits)

LowerChar(c) == IF IsUpperChar(c) THEN Lowers[IndexIn(Uppers, c)] ELSE c
UpperChar(c) == IF IsLowerChar(c) THEN Uppers[IndexIn(Lowers, c)] ELSE c

\* str.lower()
Lower(s) == [i \in DOMAIN s |-> LowerChar(s[i])]

\* str.title(): a cased character is upper-cased when it follows an uncased
\* one (or starts the string) and lower-cased otherwise.
Title(s) ==
    [i \in DOMAIN s |->
        IF i = 1 \/ ~IsCased(s[i - 1]) THEN UpperChar(s[i]) ELSE LowerChar(s[i])]

\* sub in s
Contains(sub, s) ==
    \E i \in 0..(Len(s) - Len(sub)) : SubSeq(s, i + 1, i + Len(sub)) = sub

---------------------------------------------------------------------------
(* float(value) and f"{value:.2f}".                                        *)

Pow10(k) == IF k <= 0 THEN 1 ELSE IF k = 1 THEN 10 ELSE IF k = 2 THEN 100 ELSE 1000

RECURSIVE DigitsValue(_)
DigitsValue(s) ==
    IF s = <<>> THEN 0
    ELSE 10 * DigitsValue(SubSeq(s, 1, Len(s) - 1)) + (IndexIn(Digits, s[Len(s)]) - 1)

\* The unsigned decimal literals float() accepts among strings of digits
\* and dots: digits, digits "." [digits], "." digits.
IsDecimal(s) ==
    LET dots == {i \in DOMAIN s : s[i] = "."}
    IN  /\ s # <<>>
        /\ \A i \in DOMAIN s : IsDigit(s[i]) \/ s[i] = "."
        /\ Cardinality(dots) <= 1
        /\ \E i \in DOMAIN s : IsDigit(s[i])

DecimalValue(s) ==
    LET dots == {i \in DOMAIN s : s[i] = "."}
        dot == IF dots = {} THEN Len(s) + 1 ELSE CHOOSE i \in dots : TRUE
        whole == SubSeq(s, 1, dot - 1)
        frac == SubSeq(s, dot + 1, Len(s))
    IN  Num(DigitsValue(whole) * Pow10(Len(frac)) + DigitsValue(frac), Pow10(Len(frac)))

HasSign(s) == s # <<>> /\ s[1] \in {"-", "+"}
Unsigned(s) == IF HasSign(s) THEN Tail(s) ELSE s

\* float(value) raises ValueError on a str that is no number and TypeError
\* on None, a dict or a list; it returns a number otherwise.
FloatRaises(v) ==
    IF IsNum(v) THEN "ok"
    ELSE IF IsStr(v) THEN (IF IsDecimal(Unsigned(v.str)) THEN "ok" ELSE "ValueError")
    ELSE IF DOMAIN v = {"bool"} THEN "ok"
    ELSE "TypeError"

Float(v) ==
    IF IsNum(v) THEN v
    ELSE IF IsStr(v) THEN
        LET u == DecimalValue(Unsigned(v.str))
        IN  IF v.str[1] = "-" THEN Num(0 - u.num, u.den) ELSE u
    ELSE Num(IF v.bool THEN 1 ELSE 0, 1)

RECURSIVE NatChars(_)
NatChars(n) ==
    IF n < 10 THEN <<Digits[n + 1]>> ELSE NatChars(n \div 10) \o <<Digits[(n % 10) + 1]>>

\* n/d is a binary fraction (exactly representable as a float)
Dyadic(n, d) == \E p \in 0..10 : (n * (2 ^ p)) % d = 0

\* The float nearest to n/d, in hundredths, rounded as the .2f conversion
\* rounds: to nearest, a tie of an exact binary fraction to even. The only
\* ties that are no binary fraction reachable here are 1/40 and 1/200,
\* whose floats lie above the tie.
Hundredths(n, d) ==
    LET q == (100 * n) \div d
        r == (100 * n) % d
    IN  IF 2 * r < d THEN q
        ELSE IF 2 * r > d THEN q + 1
        ELSE IF Dyadic(n, d) THEN (IF q % 2 = 0 THEN q ELSE q + 1)
        ELSE q + 1

\* f"{x:.2f}" of the number x
Format2f(x) ==
    LET a == IF x.num < 0 THEN 0 - x.num ELSE x.num
        h == Hundredths(a, x.den)
    IN  Str((IF x.num < 0 THEN <<"-">> ELSE <<>>)
            \o NatChars(h \div 100) \o <<".">>
            \o <<Digits[((h % 100) \div 10) + 1], Digits[(h % 10) + 1]>>)

---------------------------------------------------------------------------
(* JsonTreeItem: the heap of items.                                        *)

VARIABLES
    items,                  \* id -> JsonTreeItem object
    rootItem,               \* JsonTreeModel.rootItem
    current_editing_index,  \* CustomTreeView.current_editing_index
    original_value,         \* CustomTreeView.original_value
    editor,                 \* the index of the open editor widget, or NoIndex
    last,                   \* the handler that ran last, its arguments and outcome
    steps                   \* handlers run since construction

vars == <<items, rootItem, current_editing_index, original_value, editor, last, steps>>

Black == "black"
Red == "red"
Green == "green"

StatusPending == Str(<<"RED_CIRCLE">>)
StatusDone == Str(<<"CHECK_MARK", "VS16">>)

\* JsonTreeItem(data, role, parent)
JsonTreeItem(data, role, parent) ==
    [parentItem |-> parent, itemData |-> data, childItems |-> <<>>,
     role |-> role, font_color |-> Black]

NoItem == -1
ItemIds == 0..(MaxItems - 1)

\* The identity of a newly constructed object: the first one not in use.
FreshId(h) ==
    CHOOSE i \in 0..Cardinality(DOMAIN h) : i \notin DOMAIN h /\ \A j \in 0..(i - 1) : j \in DOMAIN h
HasRoom(h, n) == Cardinality(DOMAIN h) + n <= MaxItems

\* parent.appendChild(item)
AppendChild(h, parent, item) == [h EXCEPT ![parent].childItems = Append(@, item)]

\* item.childCount()
ChildCount(h, item) == Len(h[item].childItems)

\* item.columnCount()
ItemColumnCount(h, item) == Len(h[item].itemData)

\* item.data(column), columns counted from 0. A negative column indexes
\* from the end, as a Python list does, and raises below -len.
ItemData(h, item, column) ==
    LET d == h[item].itemData
    IN  IF column >= Len(d) THEN None
        ELSE IF column >= 0 THEN d[column + 1]
        ELSE d[Len(d) + column + 1]

\* list[k] raises IndexError outside -len .. len - 1
SubscriptRaises(list, k) == k >= Len(list) \/ k < 0 - Len(list)

\* list[k], a negative k counting from the end
Subscript(list, k) == IF k >= 0 THEN list[k + 1] ELSE list[Len(list) + k + 1]

\* item.data(column) as a call: the value returned and the exception that
\* leaves the call, if any
ItemDataCall(h, item, column) ==
    IF column >= Len(h[item].itemData) THEN [ret |-> None, raised |-> ""]
    ELSE IF SubscriptRaises(h[item].itemData, column)
    THEN [ret |-> None, raised |-> "IndexError"]
    ELSE [ret |-> Subscript(h[item].itemData, column), raised |-> ""]

\* item.child(row) as a call: the child returned and the exception that
\* leaves the call, if any
ItemChildCall(h, item, row) ==
    IF SubscriptRaises(h[item].childItems, row)
    THEN [ret |-> None, raised |-> "IndexError"]
    ELSE [ret |-> [item |-> Subscript(h[item].childItems, row)], raised |-> ""]

\* item.setData(column, value): the new heap and the boolean returned
ItemSetDataOk(h, item, column) == column < Len(h[item].itemData)

ItemSetData(h, item, column, value) ==
    IF ItemSetDataOk(h, item, column)
    THEN [h EXCEPT ![item].itemData[column + 1] = value]
    ELSE h

\* update_font_color(item, color)
UpdateFontColor(h, item, color) == [h EXCEPT ![item].font_color = color]

RECURSIVE Descendants(_, _)
Descendants(h, item) ==
    {item} \cup UNION {Descendants(h, h[item].childItems[i]) : i \in DOMAIN h[item].childItems}

\* The items reachable from the root through childItems
Reachable(h, root) == Descendants(h, root)

---------------------------------------------------------------------------
(* JsonTreeModel.loadJsonData                                              *)

WorkflowCompleted ==
    <<"W","o","r","k","f","l","o","w"," ","C","o","m","p","l","e","t","e","d">>

EmptyStr == Str(<<>>)

\* The status glyph when the Result string must equal the marker text
StatusOfExact(result) ==
    IF result.str = WorkflowCompleted THEN StatusDone ELSE StatusPending

\* The status glyph of a Result string
StatusOf(result) ==
    IF Contains(WorkflowCompleted, result.str) THEN StatusDone ELSE StatusPending

\* dimension_attributes of a dimension object of the document
DimensionAttributes(dimension) ==
    Dict([k \in {"id", "name", "text", "required", "default_analysis_weighting",
                 "Analysis Mode", "Result", "Execution Start Time",
                 "Dimension Result File", "Execution End Time"} |->
        IF k = "required" THEN Get(dimension, k, Bool(FALSE))
        ELSE IF k = "default_analysis_weighting" THEN Get(dimension, k, Num(0, 1))
        ELSE IF k = "Analysis Mode" THEN Get(dimension, "Factor Aggregation", EmptyStr)
        ELSE Get(dimension, k, EmptyStr)])

\* factor_attributes of a factor object of the document
FactorAttributes(factor) ==
    Dict([k \in {"id", "name", "text", "required", "default_dimension_weighting",
                 "Analysis Mode", "Result", "Execution Start Time",
                 "Factor Result File", "Execution End Time"} |->
        IF k = "required" THEN Get(factor, k, Bool(FALSE))
        ELSE IF k = "default_dimension_weighting"
            THEN Get(factor, "default_analysis_weighting", Num(0, 1))
        ELSE IF k = "Analysis Mode" THEN Get(factor, "Factor Aggregation", EmptyStr)
        ELSE Get(factor, k, EmptyStr)])

\* The indicator loop of one factor, from layer i on
RECURSIVE LoadLayers(_, _, _, _)
LoadLayers(h, factor_item, layers, i) ==
    IF i > Len(layers) THEN h
    ELSE
        LET indicator == layers[i]
            id == FreshId(h)
            indicator_item ==
                JsonTreeItem(<<indicator.dict["Layer"],
                               StatusOf(Get(indicator, "Indicator Result", EmptyStr)),
                               Get(indicator, "Factor Weighting", Num(0, 1)),
                               indicator>>,
                             "layer", factor_item)
        IN  LoadLayers(AppendChild(h @@ (id :> indicator_item), factor_item, id),
                       factor_item, layers, i + 1)

\* factor_weighting_sum starting from 1.0
FactorWeightingSumOne == Num(1, 1)

\* factor_weighting_sum is never added to: the factor's total is 0.0
FactorWeightingSum == Num(0, 1)

\* The factor loop of one dimension, from factor i on
RECURSIVE LoadFactors(_, _, _, _)
LoadFactors(h, dimension_item, factors, i) ==
    IF i > Len(factors) THEN h
    ELSE
        LET factor == factors[i]
            factor_attributes == FactorAttributes(factor)
            id == FreshId(h)
            factor_item ==
                JsonTreeItem(<<factor.dict["name"],
                               StatusOf(Get(factor_attributes, "Result", EmptyStr)),
                               EmptyStr, factor_attributes>>,
                             "factor", dimension_item)
            h1 == AppendChild(h @@ (id :> factor_item), dimension_item, id)
            h2 == LoadLayers(h1, id, Get(factor, "layers", List(<<>>)).list, 1)
            h3 == ItemSetData(h2, id, 2, Format2f(FactorWeightingSum))
            h4 == UpdateFontColor(h3, id,
                    IF FactorWeightingSum.num = FactorWeightingSum.den THEN Green ELSE Red)
        IN  LoadFactors(h4, dimension_item, factors, i + 1)

\* The dimension loop, from dimension i on
RECURSIVE LoadDimensions(_, _, _, _)
LoadDimensions(h, root, dimensions, i) ==
    IF i > Len(dimensions) THEN h
    ELSE
        LET dimension == dimensions[i]
            id == FreshId(h)
            dimension_item ==
                JsonTreeItem(<<Str(Title(dimension.dict["name"].str)),
                               StatusOf(Get(dimension, "Result", EmptyStr)),
                               EmptyStr, DimensionAttributes(dimension)>>,
                             "dimension", root)
            h1 == AppendChild(h @@ (id :> dimension_item), root, id)
            h2 == LoadFactors(h1, id, Get(dimension, "factors", List(<<>>)).list, 1)
        IN  LoadDimensions(h2, root, dimensions, i + 1)

RootData == <<Str(<<"G","E","E","S","T","2">>), Str(<<"S","t","a","t","u","s">>),
              Str(<<"W","e","i","g","h","t">>)>>

\* loadJsonData(json_data) on a heap that holds the objects still referenced
\* from outside the tree: the new heap, with the new root at FreshId(kept)
LoadJsonData(kept, json_data) ==
    LET root == FreshId(kept)
        h0 == kept @@ (root :> JsonTreeItem(RootData, "root", NoItem))
    IN  LoadDimensions(h0, root, Get(json_data, "dimensions", List(<<>>)).list, 1)

\* The number of items loadJsonData constructs for a document
RECURSIVE SumLen(_, _, _)
SumLen(seq, key, i) ==
    IF i > Len(seq) THEN 0
    ELSE Len(Get(seq[i], key, List(<<>>)).list) + SumLen(seq, key, i + 1)

RECURSIVE ItemsOfFactors(_, _)
ItemsOfFactors(dimensions, i) ==
    IF i > Len(dimensions) THEN 0
    ELSE LET fs == Get(dimensions[i], "factors", List(<<>>)).list
         IN  Len(fs) + SumLen(fs, "layers", 1) + ItemsOfFactors(dimensions, i + 1)

ItemsOfDocument(json_data) ==
    LET ds == Get(json_data, "dimensions", List(<<>>)).list
    IN  1 + Len(ds) + ItemsOfFactors(ds, 1)

---------------------------------------------------------------------------
(* The documents handed to the model.                                      *)

LayerX == Dict(("Layer" :> Str(<<"x">>)) @@ ("Factor Weighting" :> Num(5, 10)))
LayerY == Dict(("Layer" :> Str(<<"y">>)) @@ ("Factor Weighting" :> Str(<<"0", ".", "5", "0">>))
               @@ ("Indicator Result" :> Str(WorkflowCompleted \o <<":", " ", "o", "k">>)))
LayerZ == Dict(("Layer" :> Str(<<"z">>)) @@ ("Indicator Result File" :> Str(<<"z", ".", "t">>)))

FactorF == Dict(("name" :> Str(<<"f">>)) @@ ("id" :> Str(<<"f", "1">>))
                @@ ("layers" :> List(<<LayerX>>)))
FactorG == Dict(("name" :> Str(<<"g">>)) @@ ("Result" :> Str(WorkflowCompleted))
                @@ ("layers" :> List(<<LayerY, LayerZ>>)))
FactorH == Dict(("name" :> Str(<<"h">>)) @@ ("Result" :> Str(<<"W", "o", "r", "k", "f", "l", "o", "w", " ", "E", "r", "r", "o", "r">>))
                @@ ("default_dimension_weighting" :> Num(5, 10)))

DimensionA == Dict(("name" :> Str(<<"a", "B">>)) @@ ("id" :> Str(<<"a">>))
                   @@ ("factors" :> List(<<FactorF>>)))
DimensionB == Dict(("name" :> Str(<<"b">>)) @@ ("Result" :> Str(WorkflowCompleted))
                   @@ ("factors" :> List(<<FactorG>>)))
DimensionC == Dict(("name" :> Str(<<"c", " ", "d">>)) @@ ("custom" :> Str(<<"k">>))
                   @@ ("factors" :> List(<<FactorH, FactorF>>)))
DimensionD == Dict(("name" :> Str(<<"d">>)) @@ ("required" :> Bool(TRUE)))

Documents ==
    { EmptyDict,
      Dict("dimensions" :> List(<<DimensionA>>)),
      Dict("dimensions" :> List(<<DimensionB>>)),
      Dict("dimensions" :> List(<<DimensionC>>)),
      Dict("dimensions" :> List(<<DimensionD, DimensionA>>)) }

---------------------------------------------------------------------------
(* Indexes, JsonTreeModel.data / setData / flags.                          *)

NoIndex == <<>>
Index(item, column) == <<item, column>>
IndexItem(index) == index[1]
IndexColumn(index) == index[2]

\* JsonTreeModel.columnCount(): the columns of the root item
ColumnCount(h, root) == ItemColumnCount(h, root)

\* model.data(index, Qt.DisplayRole)
ModelData(h, index) ==
    IF index = NoIndex THEN None ELSE ItemData(h, IndexItem(index), IndexColumn(index))

\* setData without the float() check and the formatting of column 2
ModelSetDataUnchecked(h, index, value) ==
    [h |-> ItemSetData(h, IndexItem(index), IndexColumn(index), value),
     ret |-> Bool(ItemSetDataOk(h, IndexItem(index), IndexColumn(index))), raised |-> ""]

\* model.setData(index, value, Qt.EditRole): the new heap, the value
\* returned and the exception that leaves the call, if any
ModelSetData(h, index, value) ==
    LET item == IndexItem(index)
        column == IndexColumn(index)
    IN  IF column = 2 THEN
            IF FloatRaises(value) = "ok"
            THEN [h |-> ItemSetData(h, item, column, Format2f(Float(value))),
                  ret |-> Bool(ItemSetDataOk(h, item, column)), raised |-> ""]
            ELSE IF FloatRaises(value) = "ValueError"
            THEN [h |-> h, ret |-> Bool(FALSE), raised |-> ""]
            ELSE [h |-> h, ret |-> None, raised |-> FloatRaises(value)]
        ELSE [h |-> ItemSetData(h, item, column, value),
              ret |-> Bool(ItemSetDataOk(h, item, column)), raised |-> ""]

\* Qt.ItemIsEditable in model.flags(index)
FlagsEditable(index) ==
    IF index = NoIndex THEN FALSE
    ELSE IndexColumn(index) = 0 \/ IndexColumn(index) = 1

\* QAbstractItemModel.hasIndex(row, column, parent) with rowCount and
\* columnCount of the model
HasIndex(h, root, row, column, parent) ==
    LET parentItem == IF parent = NoIndex THEN root ELSE IndexItem(parent)
    IN  /\ row >= 0 /\ column >= 0
        /\ row < ChildCount(h, parentItem)
        /\ column < ColumnCount(h, root)

\* model.index(row, column, parent)
ModelIndex(h, root, row, column, parent) ==
    LET parentItem == IF parent = NoIndex THEN root ELSE IndexItem(parent)
    IN  IF ~HasIndex(h, root, row, column, parent) THEN NoIndex
        ELSE Index(Subscript(h[parentItem].childItems, row), column)

---------------------------------------------------------------------------
(* JsonTreeModel.to_json                                                   *)

\* json.update(item.data(3)) inside try/except: a bag that is no mapping
\* leaves json as it was
MergeBag(json, bag) == IF IsDict(bag) THEN Update(json, bag) ELSE json

\* recurse_tree(item) and the list comprehension over item.childItems.
\* Each yields the heap after the call (a layer's dict is written to), the
\* value returned and the exception raised, if any.
RECURSIVE RecurseTree(_, _), RecurseChildren(_, _, _)
RecurseChildren(h, children, i) ==
    IF i > Len(children) THEN [h |-> h, json |-> List(<<>>), raised |-> ""]
    ELSE
        LET first == RecurseTree(h, children[i])
        IN  IF first.raised # "" THEN first
            ELSE
                LET rest == RecurseChildren(first.h, children, i + 1)
                IN  IF rest.raised # "" THEN rest
                    ELSE [h |-> rest.h, json |-> List(<<first.json>> \o rest.json.list),
                          raised |-> ""]

RecurseTree(h, item) ==
    IF h[item].role = "dimension" THEN
        LET kids == RecurseChildren(h, h[item].childItems, 1)
        IN  IF kids.raised # "" THEN kids
            ELSE [h |-> kids.h,
                  json |-> MergeBag(
                      Dict(("name" :> Str(Lower(ItemData(kids.h, item, 0).str)))
                           @@ ("factors" :> kids.json)
                           @@ ("Analysis Weighting" :> ItemData(kids.h, item, 2))),
                      ItemData(kids.h, item, 3)),
                  raised |-> ""]
    ELSE IF h[item].role = "factor" THEN
        LET kids == RecurseChildren(h, h[item].childItems, 1)
        IN  IF kids.raised # "" THEN kids
            ELSE [h |-> kids.h,
                  json |-> MergeBag(
                      Dict(("name" :> ItemData(kids.h, item, 0))
                           @@ ("layers" :> kids.json)
                           @@ ("Dimension Weighting" :> ItemData(kids.h, item, 2))),
                      ItemData(kids.h, item, 3)),
                  raised |-> ""]
    ELSE IF h[item].role = "layer" THEN
        LET json == ItemData(h, item, 3)
        IN  IF IsDict(json)
            THEN [h |-> ItemSetData(h, item, 3, Put(json, "Factor Weighting", ItemData(h, item, 2))),
                  json |-> Put(json, "Factor Weighting", ItemData(h, item, 2)),
                  raised |-> ""]
            ELSE [h |-> h, json |-> None, raised |-> "TypeError"]
    ELSE [h |-> h, json |-> None, raised |-> ""]

\* to_json(): heap, document returned, exception
ToJsonCall(h, root) ==
    LET kids == RecurseChildren(h, h[root].childItems, 1)
    IN  IF kids.raised # "" THEN kids
        ELSE [h |-> kids.h, json |-> Dict("dimensions" :> kids.json), raised |-> ""]

---------------------------------------------------------------------------
(* State after construction, and the handlers.                             *)

Call(op, item, column, value, ret, raised) ==
    [op |-> op, item |-> item, column |-> column, value |-> value,
     ret |-> ret, raised |-> raised]

\* The items an index held by the view points to
Referenced(index) == IF index = NoIndex THEN {} ELSE {IndexItem(index)}

\* The items a command or an index can name: every item shown in the tree
TreeItems == Reachable(items, rootItem) \ {rootItem}

Step == /\ steps < MaxSteps
        /\ steps' = steps + 1

\* JsonTreeModel(json_data) and CustomTreeView()
Init ==
    \E json_data \in Documents :
        /\ items = LoadJsonData(<<>>, json_data)
        /\ rootItem = 0
        /\ current_editing_index = NoIndex
        /\ original_value = None
        /\ editor = NoIndex
        /\ last = Call("__init__", NoItem, NoItem, json_data, None, "")
        /\ steps = 0

\* loadJsonData(json_data). The old tree is dropped, except an item the
\* view's index still points to; the view's reset on modelReset drops the
\* editor.
Load(json_data) ==
    LET kept == [i \in Referenced(current_editing_index) \cap DOMAIN items |-> items[i]]
    IN  /\ Step
        /\ HasRoom(kept, ItemsOfDocument(json_data))
        /\ items' = LoadJsonData(kept, json_data)
        /\ rootItem' = FreshId(kept)
        /\ editor' = NoIndex
        /\ last' = Call("loadJsonData", NoItem, NoItem, json_data, None, "")
        /\ UNCHANGED <<current_editing_index, original_value>>

\* setData(index, value, Qt.EditRole) called on the model
SetData(item, column, value) ==
    LET r == ModelSetData(items, Index(item, column), value)
    IN  /\ Step
        /\ items' = r.h
        /\ last' = Call("setData", item, column, value, r.ret, r.raised)
        /\ UNCHANGED <<rootItem, current_editing_index, original_value, editor>>

\* item.child(row), rows counted from 0
Child(h, item, row) == h[item].childItems[row + 1]

\* for i in range(i, n): parent.child(i).setData(2, value)
RECURSIVE SetChildWeightings(_, _, _, _, _)
SetChildWeightings(h, parent_item, value, i, n) ==
    IF i >= n THEN h
    ELSE SetChildWeightings(ItemSetData(h, Child(h, parent_item, i), 2, value),
                            parent_item, value, i + 1, n)

Zero2f == Str(<<"0", ".", "0", "0">>)
One2f == Str(<<"1", ".", "0", "0">>)

\* clear_factor_weightings that clears the layers of the factors as well
clear_factor_weightings_deep(h, dimension_item) ==
    LET below == Descendants(h, dimension_item)
        h1 == [j \in DOMAIN h |->
                 IF j \in below /\ ItemSetDataOk(h, j, 2)
                 THEN [h[j] EXCEPT !.itemData[3] = Zero2f]
                 ELSE h[j]]
    IN  UpdateFontColor(h1, dimension_item, Red)

\* The heap after clear_factor_weightings(dimension_item)
clear_factor_weightings(h, dimension_item) ==
    LET h1 == SetChildWeightings(h, dimension_item, Zero2f, 0, ChildCount(h, dimension_item))
        h2 == ItemSetData(h1, dimension_item, 2, Zero2f)
    IN  UpdateFontColor(h2, dimension_item, Red)

\* auto_assign_factor_weightings with the loop one child short
auto_assign_factor_weightings_short(h, dimension_item) ==
    LET num_factors == ChildCount(h, dimension_item)
        h1 == SetChildWeightings(h, dimension_item, Format2f(Num(1, num_factors)),
                                 0, num_factors - 1)
        h2 == ItemSetData(h1, dimension_item, 2, One2f)
    IN  IF num_factors = 0 THEN h ELSE UpdateFontColor(h2, dimension_item, Green)

\* The heap after auto_assign_factor_weightings(dimension_item)
auto_assign_factor_weightings(h, dimension_item) ==
    LET num_factors == ChildCount(h, dimension_item)
        factor_weighting == Num(1, num_factors)
        h1 == SetChildWeightings(h, dimension_item, Format2f(factor_weighting), 0, num_factors)
        h2 == ItemSetData(h1, dimension_item, 2, One2f)
    IN  IF num_factors = 0 THEN h ELSE UpdateFontColor(h2, dimension_item, Green)

\* clear_layer_weightings with the loop starting at the second child
clear_layer_weightings_from_1(h, factor_item) ==
    LET h1 == SetChildWeightings(h, factor_item, Zero2f, 1, ChildCount(h, factor_item))
        h2 == ItemSetData(h1, factor_item, 2, Zero2f)
    IN  UpdateFontColor(h2, factor_item, Red)

\* The heap after clear_layer_weightings(factor_item)
clear_layer_weightings(h, factor_item) ==
    LET h1 == SetChildWeightings(h, factor_item, Zero2f, 0, ChildCount(h, factor_item))
        h2 == ItemSetData(h1, factor_item, 2, Zero2f)
    IN  UpdateFontColor(h2, factor_item, Red)

\* auto_assign_layer_weightings with the loop one child short
auto_assign_layer_weightings_short(h, factor_item) ==
    LET num_layers == ChildCount(h, factor_item)
        h1 == SetChildWeightings(h, factor_item, Format2f(Num(1, num_layers)),
                                 0, num_layers - 1)
        h2 == ItemSetData(h1, factor_item, 2, One2f)
    IN  IF num_layers = 0 THEN h ELSE UpdateFontColor(h2, factor_item, Green)

\* The heap after auto_assign_layer_weightings(factor_item)
auto_assign_layer_weightings(h, factor_item) ==
    LET num_layers == ChildCount(h, factor_item)
        layer_weighting == Num(1, num_layers)
        h1 == SetChildWeightings(h, factor_item, Format2f(layer_weighting), 0, num_layers)
        h2 == ItemSetData(h1, factor_item, 2, One2f)
    IN  IF num_layers = 0 THEN h ELSE UpdateFontColor(h2, factor_item, Green)

\* clear_factor_weightings(dimension_item)
ClearFactorWeightings(dimension_item) ==
    /\ Step
    /\ items' = clear_factor_weightings(items, dimension_item)
    /\ last' = Call("clear_factor_weightings", dimension_item, NoItem, None, None, "")
    /\ UNCHANGED <<rootItem, current_editing_index, original_value, editor>>

\* auto_assign_factor_weightings(dimension_item)
AutoAssignFactorWeightings(dimension_item) ==
    /\ Step
    /\ items' = auto_assign_factor_weightings(items, dimension_item)
    /\ last' = Call("auto_assign_factor_weightings", dimension_item, NoItem, None, None, "")
    /\ UNCHANGED <<rootItem, current_editing_index, original_value, editor>>

\* clear_layer_weightings(factor_item)
ClearLayerWeightings(factor_item) ==
    /\ Step
    /\ items' = clear_layer_weightings(items, factor_item)
    /\ last' = Call("clear_layer_weightings", factor_item, NoItem, None, None, "")
    /\ UNCHANGED <<rootItem, current_editing_index, original_value, editor>>

\* auto_assign_layer_weightings(factor_item)
AutoAssignLayerWeightings(factor_item) ==
    /\ Step
    /\ items' = auto_assign_layer_weightings(items, factor_item)
    /\ last' = Call("auto_assign_layer_weightings", factor_item, NoItem, None, None, "")
    /\ UNCHANGED <<rootItem, current_editing_index, original_value, editor>>

\* add_factor constructing the new item with the role of its parent
add_factor_parent_role(h, dimension_item) ==
    LET id == FreshId(h)
        new_factor == JsonTreeItem(<<Str(<<"N","e","w"," ","F","a","c","t","o","r">>),
                                     StatusPending, EmptyStr>>,
                                   h[dimension_item].role, dimension_item)
    IN  AppendChild(h @@ (id :> new_factor), dimension_item, id)

\* The heap after add_factor(dimension_item)
add_factor(h, dimension_item) ==
    LET id == FreshId(h)
        new_factor == JsonTreeItem(<<Str(<<"N","e","w"," ","F","a","c","t","o","r">>),
                                     StatusPending, EmptyStr>>, "factor", dimension_item)
    IN  AppendChild(h @@ (id :> new_factor), dimension_item, id)

\* add_layer that also marks the factor red
add_layer_recolour(h, factor_item) ==
    LET id == FreshId(h)
        new_layer == JsonTreeItem(<<Str(<<"N","e","w"," ","L","a","y","e","r">>),
                                    StatusPending, One2f>>, "layer", factor_item)
    IN  UpdateFontColor(AppendChild(h @@ (id :> new_layer), factor_item, id),
                        factor_item, Red)

\* The heap after add_layer(factor_item)
add_layer(h, factor_item) ==
    LET id == FreshId(h)
        new_layer == JsonTreeItem(<<Str(<<"N","e","w"," ","L","a","y","e","r">>),
                                    StatusPending, One2f>>, "layer", factor_item)
    IN  AppendChild(h @@ (id :> new_layer), factor_item, id)

NewDimensionName == Str(<<"N","e","w"," ","D","i","m","e","n","s","i","o","n">>)

\* add_dimension constructing the new item without its parent
add_dimension_no_parent(h, root, name) ==
    LET id == FreshId(h)
        new_dimension == JsonTreeItem(<<name, StatusPending, EmptyStr>>, "dimension", NoItem)
    IN  AppendChild(h @@ (id :> new_dimension), root, id)

\* The heap after add_dimension(name)
add_dimension(h, root, name) ==
    LET id == FreshId(h)
        new_dimension == JsonTreeItem(<<name, StatusPending, EmptyStr>>, "dimension", root)
    IN  AppendChild(h @@ (id :> new_dimension), root, id)

\* list.remove(x): the list without the first element equal to x
ListRemove(list, x) ==
    LET k == CHOOSE k \in DOMAIN list : list[k] = x /\ \A j \in 1..(k - 1) : list[j] # x
    IN  SubSeq(list, 1, k - 1) \o SubSeq(list, k + 1, Len(list))

\* remove_item popping the parent's last child instead of the item
remove_item_last(h, item) ==
    LET parent == h[item].parentItem
    IN  IF parent # NoItem
        THEN [h EXCEPT ![parent].childItems = SubSeq(@, 1, Len(@) - 1)]
        ELSE h

\* The heap after remove_item(item); the caller still holds the item
remove_item(h, item) ==
    LET parent == h[item].parentItem
    IN  IF parent # NoItem
        THEN [h EXCEPT ![parent].childItems = ListRemove(@, item)]
        ELSE h

\* list.pop(row) raises IndexError outside -len .. len - 1
PopRaises(list, row) == row >= Len(list) \/ row < 0 - Len(list)

\* The list after list.pop(row); a negative row counts from the end
ListPop(list, row) ==
    LET k == IF row >= 0 THEN row + 1 ELSE Len(list) + row + 1
    IN  SubSeq(list, 1, k - 1) \o SubSeq(list, k + 1, Len(list))

\* removeRow(row, parent): the new heap, the value returned and the
\* exception that leaves the call, if any
removeRow(h, root, row, parent) ==
    LET parentItem == IF parent = NoIndex THEN root ELSE IndexItem(parent)
    IN  IF PopRaises(h[parentItem].childItems, row)
        THEN [h |-> h, ret |-> None, raised |-> "IndexError"]
        ELSE [h |-> [h EXCEPT ![parentItem].childItems = ListPop(@, row)],
              ret |-> None, raised |-> ""]

\* add_factor(dimension_item)
AddFactor(dimension_item) ==
    /\ Step
    /\ HasRoom(items, 1)
    /\ items' = add_factor(items, dimension_item)
    /\ last' = Call("add_factor", dimension_item, NoItem, None, None, "")
    /\ UNCHANGED <<rootItem, current_editing_index, original_value, editor>>

\* add_layer(factor_item)
AddLayer(factor_item) ==
    /\ Step
    /\ HasRoom(items, 1)
    /\ items' = add_layer(items, factor_item)
    /\ last' = Call("add_layer", factor_item, NoItem, None, None, "")
    /\ UNCHANGED <<rootItem, current_editing_index, original_value, editor>>

\* add_dimension(name)
AddDimension(name) ==
    /\ Step
    /\ HasRoom(items, 1)
    /\ items' = add_dimension(items, rootItem, name)
    /\ last' = Call("add_dimension", NoItem, NoItem, name, None, "")
    /\ UNCHANGED <<rootItem, current_editing_index, original_value, editor>>

\* remove_item(item)
RemoveItem(item) ==
    /\ Step
    /\ items' = remove_item(items, item)
    /\ last' = Call("remove_item", item, NoItem, None, None, "")
    /\ UNCHANGED <<rootItem, current_editing_index, original_value, editor>>

\* removeRow(row, parent)
RemoveRow(row, parent) ==
    LET r == removeRow(items, rootItem, row, parent)
    IN  /\ Step
        /\ items' = r.h
        /\ last' = Call("removeRow",
                        IF parent = NoIndex THEN rootItem ELSE IndexItem(parent),
                        NoItem, Num(row, 1), r.ret, r.raised)
        /\ UNCHANGED <<rootItem, current_editing_index, original_value, editor>>

\* to_json()
ToJson ==
    LET r == ToJsonCall(items, rootItem)
    IN  /\ Step
        /\ items' = r.h
        /\ last' = Call("to_json", NoItem, NoItem, None, None, r.raised)
        /\ UNCHANGED <<rootItem, current_editing_index, original_value, editor>>

---------------------------------------------------------------------------
(* CustomTreeView: the edit session.                                       *)

RevertModelCache == "RevertModelCache"
NoHint == "NoHint"

\* edit(index, trigger, event). The base class opens an editor or declines
\* (accepted); the override has recorded the index and its value before.
Edit(index, accepted) ==
    /\ Step
    /\ current_editing_index' = index
    /\ original_value' = ModelData(items, index)
    /\ editor' = IF accepted THEN index ELSE editor
    /\ last' = Call("edit", IndexItem(index), IndexColumn(index), None, Bool(accepted), "")
    /\ UNCHANGED <<items, rootItem>>

\* keyPressEvent(event) with event.key() == Qt.Key_Escape. Neither
\* CustomTreeView nor its base class defines hasCurrentEditor: looking it
\* up raises AttributeError, after the value was written back.
KeyPressEscape ==
    /\ Step
    /\ IF current_editing_index # NoIndex
       THEN LET r == ModelSetData(items, current_editing_index, original_value)
            IN  /\ items' = r.h
                /\ last' = Call("keyPressEvent", IndexItem(current_editing_index),
                                IndexColumn(current_editing_index), original_value, r.ret,
                                IF r.raised # "" THEN r.raised ELSE "AttributeError")
       ELSE /\ items' = items
            /\ last' = Call("keyPressEvent", NoItem, NoItem, None, None, "")
    /\ UNCHANGED <<rootItem, current_editing_index, original_value, editor>>

\* commitData(editor): the base class writes the editor's value to the
\* editor's index through model.setData
CommitData(value) ==
    /\ Step
    /\ editor # NoIndex
    /\ IF current_editing_index # NoIndex
       THEN LET r == ModelSetData(items, editor, value)
            IN  /\ items' = r.h
                /\ current_editing_index' = NoIndex
                /\ original_value' = None
                /\ last' = Call("commitData", IndexItem(editor), IndexColumn(editor),
                                value, r.ret, r.raised)
       ELSE /\ UNCHANGED <<items, current_editing_index, original_value>>
            /\ last' = Call("commitData", NoItem, NoItem, value, None, "")
    /\ UNCHANGED <<rootItem, editor>>

\* closeEditor(editor, hint). The base implementation, which releases the
\* editor, is not called.
CloseEditor(hint) ==
    /\ Step
    /\ editor # NoIndex
    /\ IF hint = RevertModelCache /\ current_editing_index # NoIndex
       THEN LET r == ModelSetData(items, current_editing_index, original_value)
            IN  /\ items' = r.h
                /\ last' = Call("closeEditor", IndexItem(current_editing_index),
                                IndexColumn(current_editing_index), original_value,
                                r.ret, r.raised)
                /\ IF r.raised = ""
                   THEN current_editing_index' = NoIndex /\ original_value' = None
                   ELSE UNCHANGED <<current_editing_index, original_value>>
       ELSE /\ items' = items
            /\ current_editing_index' = NoIndex
            /\ original_value' = None
            /\ last' = Call("closeEditor", NoItem, NoItem, None, None, "")
    /\ UNCHANGED <<rootItem, editor>>

---------------------------------------------------------------------------
(* Inputs and the next-state relation.                                     *)

NameValues == {Str(<<"n", "M">>)}
WeightingValues == {Str(<<"a", "b", "c">>), Str(<<"0", ".", "5">>)}

\* The columns an index of the model can have: 0 .. columnCount() - 1
Columns == 0..(ColumnCount(items, rootItem) - 1)

\* The values an editor or a caller hands to setData for a column
EditValues(column) == IF column = 2 THEN WeightingValues ELSE NameValues

\* The rows handed to removeRow: the last one counted from the end, the
\* first two counted from 0
Rows == {0 - 1, 0, 1}

\* The indexes a caller can hand over as parent: none, or an item's
ParentIndexes == {NoIndex} \cup {Index(item, 0) : item \in TreeItems}

Dimensions == {i \in TreeItems : items[i].role = "dimension"}
Factors == {i \in TreeItems : items[i].role = "factor"}

Next ==
    \/ \E json_data \in Documents : Load(json_data)
    \/ \E item \in TreeItems, column \in Columns :
            \E value \in EditValues(column) : SetData(item, column, value)
    \/ \E item \in Dimensions : ClearFactorWeightings(item)
    \/ \E item \in Dimensions : AutoAssignFactorWeightings(item)
    \/ \E item \in Factors : ClearLayerWeightings(item)
    \/ \E item \in Factors : AutoAssignLayerWeightings(item)
    \/ \E item \in Reachable(items, rootItem) : AddFactor(item)
    \/ \E item \in Reachable(items, rootItem) : AddLayer(item)
    \/ AddDimension(NewDimensionName)
    \/ \E item \in Reachable(items, rootItem) : RemoveItem(item)
    \/ \E row \in Rows, parent \in ParentIndexes : RemoveRow(row, parent)
    \/ ToJson
    \/ \E item \in TreeItems, column \in Columns :
            \E accepted \in BOOLEAN : Edit(Index(item, column), accepted)
    \/ KeyPressEscape
    \/ \E value \in NameValues \cup WeightingValues : CommitData(value)
    \/ \E hint \in {RevertModelCache, NoHint} : CloseEditor(hint)

Spec == Init /\ [][Next]_vars

---------------------------------------------------------------------------
(* The bulk weighting operations on parents with many children.            *)

\* Documents with one dimension whose only factor has n layers (up to
\* MaxFanout), and with one dimension that has n factors (up to MaxItems)
WideLayers(n) ==
    Dict("dimensions" :> List(<<
        Dict(("name" :> Str(<<"w">>))
             @@ ("factors" :> List(<<
                    Dict(("name" :> Str(<<"f">>))
                         @@ ("layers" :> List([i \in 1..n |-> LayerZ])))>>)))>>))

WideFactors(n) ==
    Dict("dimensions" :> List(<<
        Dict(("name" :> Str(<<"w">>))
             @@ ("factors" :> List([i \in 1..n |-> FactorH])))>>))

WideDocuments == {WideLayers(n) : n \in 1..MaxFanout} \cup {WideFactors(n) : n \in 1..MaxItems}

\* JsonTreeModel(json_data) on a wide document
InitWide ==
    \E json_data \in WideDocuments :
        /\ items = LoadJsonData(<<>>, json_data)
        /\ rootItem = 0
        /\ current_editing_index = NoIndex
        /\ original_value = None
        /\ editor = NoIndex
        /\ last = Call("__init__", NoItem, NoItem, json_data, None, "")
        /\ steps = 0

NextWide ==
    \/ \E item \in Dimensions : ClearFactorWeightings(item)
    \/ \E item \in Dimensions : AutoAssignFactorWeightings(item)
    \/ \E item \in Factors : ClearLayerWeightings(item)
    \/ \E item \in Factors : AutoAssignLayerWeightings(item)

SpecWide == InitWide /\ [][NextWide]_vars

---------------------------------------------------------------------------
(* Structural lookups.                                                     *)

\* item.child(row)
ChildLookup(item, row) ==
    LET r == ItemChildCall(items, item, row)
    IN  /\ Step
        /\ last' = Call("child", item, NoItem, Num(row, 1), r.ret, r.raised)
        /\ UNCHANGED <<items, rootItem, current_editing_index, original_value, editor>>

\* item.data(column)
DataLookup(item, column) ==
    LET r == ItemDataCall(items, item, column)
    IN  /\ Step
        /\ last' = Call("data", item, column, None, r.ret, r.raised)
        /\ UNCHANGED <<items, rootItem, current_editing_index, original_value, editor>>

\* model.index(row, column, parent)
IndexLookup(row, column, parent) ==
    /\ Step
    /\ last' = Call("index", IF parent = NoIndex THEN rootItem ELSE IndexItem(parent),
                    column, Num(row, 1),
                    [index |-> ModelIndex(items, rootItem, row, column, parent)], "")
    /\ UNCHANGED <<items, rootItem, current_editing_index, original_value, editor>>

\* The columns handed to the lookups: below -len, the last one counted from
\* the end, the first, and the two past the visible ones
LookupColumns == {0 - 5, 0 - 1, 0, 3, 4}

NextLookup ==
    \/ \E item \in Reachable(items, rootItem), row \in Rows : ChildLookup(item, row)
    \/ \E item \in Reachable(items, rootItem), column \in LookupColumns :
            DataLookup(item, column)
    \/ \E row \in Rows, column \in LookupColumns, parent \in ParentIndexes :
            IndexLookup(row, column, parent)
    \/ \E row \in Rows, parent \in ParentIndexes : RemoveRow(row, parent)

SpecLookup == Init /\ [][NextLookup]_vars

---------------------------------------------------------------------------
(* Properties.                                                             *)

\* The handler recorded in last' ran in this step
Ran(ops) == steps' = steps + 1 /\ last'.op \in ops

\* s is a 2-decimal fixed string: digits, a dot, two digits
IsTwoDecimal(v) ==
    /\ IsStr(v)
    /\ LET s == Unsigned(v.str)
       IN  /\ Len(s) >= 4
           /\ s[Len(s) - 2] = "."
           /\ \A i \in DOMAIN s : i # Len(s) - 2 => IsDigit(s[i])

\* Two numbers are equal
NumEq(x, y) == x.num * y.den = y.num * x.den

\* C1: cancelling an edit (Escape key, or the editor closed with the revert
\* hint) leaves at the edited location exactly the value it had when the
\* edit began.
C1_CancelRestoresValue ==
    (last.op \in {"keyPressEvent", "closeEditor"} /\ last.item # NoItem)
        => ItemData(items, last.item, last.column) = last.value

\* C2: a commit of a non-numeric value to a weighting cell under edit is
\* refused and the session stays Editing, location and original value kept.
C2_RefusedCommitKeepsSession ==
    [][(/\ Ran({"commitData"})
        /\ current_editing_index # NoIndex
        /\ current_editing_index = editor
        /\ IndexColumn(editor) = 2
        /\ last'.ret = Bool(FALSE))
       => (/\ current_editing_index' = current_editing_index
           /\ original_value' = original_value)]_vars

EvenShare(n) ==
    IF n = 1 THEN Str(<<"1", ".", "0", "0">>)
    ELSE IF n = 2 THEN Str(<<"0", ".", "5", "0">>)
    ELSE IF n = 3 THEN Str(<<"0", ".", "3", "3">>)
    ELSE IF n = 4 THEN Str(<<"0", ".", "2", "5">>)
    ELSE IF n = 5 THEN Str(<<"0", ".", "2", "0">>)
    ELSE IF n = 6 THEN Str(<<"0", ".", "1", "7">>)
    ELSE Str(<<"0", ".", "1", "4">>)

\* C4: auto-assigning on a parent with N > 0 children sets every child's
\* weighting to format(1/N), the parent's to "1.00" and the parent's colour
\* to green; with no children the whole tree is unchanged.
C4_AutoAssignEven ==
    [][Ran({"auto_assign_factor_weightings", "auto_assign_layer_weightings"})
       => LET parent == last'.item
              n == ChildCount(items, parent)
          IN  IF n = 0 THEN items' = items
              ELSE /\ \A k \in 0..(n - 1) :
                        ItemData(items', Child(items', parent, k), 2) = EvenShare(n)
                   /\ ChildCount(items', parent) = n
                   /\ ItemData(items', parent, 2) = Str(<<"1", ".", "0", "0">>)
                   /\ items'[parent].font_color = Green]_vars

C4_Witness ==
    /\ last.op \in {"auto_assign_factor_weightings", "auto_assign_layer_weightings"}
    /\ ChildCount(items, last.item) = 2
    /\ \A k \in 0..1 : ItemData(items, Child(items, last.item, k), 2) = EvenShare(2)
    /\ items[last.item].font_color = Green

\* C5: clearing sets every child's weighting and the parent's own to "0.00"
\* and the parent's colour to red, whatever they were and for every child
\* count, zero included.
C5_ClearSiblingWeightings ==
    [][Ran({"clear_factor_weightings", "clear_layer_weightings"})
       => LET parent == last'.item
              n == ChildCount(items, parent)
          IN  /\ ChildCount(items', parent) = n
              /\ \A k \in 0..(n - 1) :
                    ItemData(items', Child(items', parent, k), 2) = Str(<<"0", ".", "0", "0">>)
              /\ ItemData(items', parent, 2) = Str(<<"0", ".", "0", "0">>)
              /\ items'[parent].font_color = Red]_vars

C5_Witness ==
    /\ last.op \in {"clear_factor_weightings", "clear_layer_weightings"}
    /\ ChildCount(items, last.item) = 2
    /\ \A k \in 0..1 :
          ItemData(items, Child(items, last.item, k), 2) = Str(<<"0", ".", "0", "0">>)
    /\ items[last.item].font_color = Red

\* C6: for every item, the columns flags() reports editable are exactly
\* column 0 (name) and column 2 (weighting).
C6_EditableColumns ==
    \A item \in TreeItems :
        {column \in Columns : FlagsEditable(Index(item, column))} = {0, 2}

WeightingKeys == {"Analysis Weighting", "Dimension Weighting", "Factor Weighting"}

\* The keys of a JSON object other than its weighting and its child list
PlainKeys(object, child_key) == DOMAIN object.dict \ (WeightingKeys \cup {child_key})

\* The same keys with the same values, weighting and child list apart
SameFields(out, doc, child_key) ==
    /\ IsDict(out)
    /\ PlainKeys(out, child_key) = PlainKeys(doc, child_key)
    /\ \A k \in PlainKeys(doc, child_key) : out.dict[k] = doc.dict[k]

\* The child list of a JSON object
ChildList(object, child_key) == Get(object, child_key, List(<<>>)).list

SameLayer(out, doc) == SameFields(out, doc, "")

SameFactor(out, doc) ==
    /\ SameFields(out, doc, "layers")
    /\ Len(ChildList(out, "layers")) = Len(ChildList(doc, "layers"))
    /\ \A i \in DOMAIN ChildList(doc, "layers") :
          SameLayer(ChildList(out, "layers")[i], ChildList(doc, "layers")[i])

SameDimension(out, doc) ==
    /\ SameFields(out, doc, "factors")
    /\ Len(ChildList(out, "factors")) = Len(ChildList(doc, "factors"))
    /\ \A i \in DOMAIN ChildList(doc, "factors") :
          SameFactor(ChildList(out, "factors")[i], ChildList(doc, "factors")[i])

SameDocument(out, doc) ==
    /\ IsDict(out)
    /\ Len(ChildList(out, "dimensions")) = Len(ChildList(doc, "dimensions"))
    /\ \A i \in DOMAIN ChildList(doc, "dimensions") :
          SameDimension(ChildList(out, "dimensions")[i], ChildList(doc, "dimensions")[i])

\* C7: serialising the tree loaded from a document gives a document
\* structurally equal to it: the same dimensions, factors and layers in the
\* same order with the same keys and values, weighting fields apart.
C7_RoundTrip ==
    last.op \in {"__init__", "loadJsonData"}
        => LET r == ToJsonCall(items, rootItem)
           IN  r.raised = "" /\ SameDocument(r.json, last.value)

\* C8: after a successful rename of a dimension or factor (setData on
\* column 0), the object serialised for that item carries the new name.
C8_SerializedNameIsLive ==
    (/\ last.op = "setData" /\ last.column = 0 /\ last.ret = Bool(TRUE)
     /\ last.item \in TreeItems
     /\ items[last.item].role \in {"dimension", "factor"})
        => LET r == RecurseTree(items, last.item)
           IN  r.raised = ""
                 => /\ IsDict(r.json)
                    /\ "name" \in DOMAIN r.json.dict
                    /\ IsStr(r.json.dict["name"])
                    /\ Lower(r.json.dict["name"].str) = Lower(last.value.str)

\* s without its element at position k
WithoutAt(s, k) == SubSeq(s, 1, k - 1) \o SubSeq(s, k + 1, Len(s))

\* The position of x in s
PositionIn(s, x) == CHOOSE k \in DOMAIN s : s[k] = x

\* C9: removing a factor that is a child of a dimension makes the factor
\* and its layers unreachable from the root, keeps the order of the other
\* children, and the document serialised afterwards holds the dimension's
\* other factors only.
C9_RemoveFactorDetaches ==
    [][(/\ Ran({"remove_item"})
        /\ last'.item \in TreeItems
        /\ items[last'.item].role = "factor"
        /\ items[items[last'.item].parentItem].role = "dimension")
       => LET f == last'.item
              p == items[f].parentItem
              k == PositionIn(items[p].childItems, f)
              before == RecurseTree(items, p)
              after == RecurseTree(items', p)
          IN  /\ Descendants(items, f) \cap Reachable(items', rootItem') = {}
              /\ items'[p].childItems = WithoutAt(items[p].childItems, k)
              /\ Reachable(items', rootItem') = Reachable(items, rootItem) \ Descendants(items, f)
              /\ before.raised = ""
                    => /\ after.raised = ""
                       /\ after.json.dict["factors"].list
                            = WithoutAt(before.json.dict["factors"].list, k)]_vars

C9_Witness ==
    /\ last.op = "remove_item"
    /\ last.item \notin Reachable(items, rootItem)
    /\ items[last.item].role = "factor"
    /\ ChildCount(items, last.item) > 0
    /\ items[items[last.item].parentItem].role = "dimension"
    /\ ChildCount(items, items[last.item].parentItem) > 0
    /\ ToJsonCall(items, rootItem).raised = ""

\* The role one level below a role
RoleBelow(role) ==
    IF role = "root" THEN "dimension" ELSE IF role = "dimension" THEN "factor" ELSE "layer"

\* Every item of the tree has the role below its parent's
ProperHierarchy ==
    \A i \in TreeItems :
        items[items[i].parentItem].role # "layer"
        /\ items[i].role = RoleBelow(items[items[i].parentItem].role)

\* C10: to_json() completes and returns a document after any sequence of
\* handlers; it never ends with an exception, also when the tree holds
\* items made by add_dimension, add_factor and add_layer under a parent of
\* the right role.
C10_SerializeNeverFails ==
    (last.op = "to_json" /\ ProperHierarchy) => last.raised = ""

\* The weighting column of an item parses as a number in [0, 1]
UnitWeighting(v) ==
    /\ FloatRaises(v) = "ok"
    /\ Float(v).num >= 0
    /\ Float(v).num <= Float(v).den

\* C11: in every reachable state the weighting column of every item of the
\* tree other than the root parses as a number that lies in [0, 1].
C11_WeightingInUnitInterval ==
    \A i \in TreeItems : UnitWeighting(ItemData(items, i, 2))

\* C12 as claimed: in every reachable state every item of the tree other
\* than the root has the role one level below its parent's role, whatever
\* item add_factor and add_layer were handed.
C12_RoleHierarchyAnyArgument ==
    \A i \in TreeItems :
        /\ items[items[i].parentItem].role \in {"root", "dimension", "factor"}
        /\ items[i].role = RoleBelow(items[items[i].parentItem].role)

\* The handler of this step was handed an item of the role its signature
\* names: add_factor a dimension, add_layer a factor
TypedArgument ==
    /\ last'.op = "add_factor" => items[last'.item].role = "dimension"
    /\ last'.op = "add_layer" => items[last'.item].role = "factor"

\* C12 amended: the tree built by the constructor has every item's role one
\* level below its parent's, and every handler keeps it so provided
\* add_factor is handed a dimension item and add_layer a factor item.
C12_RoleHierarchyTypedArguments ==
    /\ ProperHierarchy
    /\ [][(ProperHierarchy /\ steps' = steps + 1 /\ TypedArgument)
            => ProperHierarchy']_vars

C12_Witness ==
    /\ last.op \in {"add_factor", "add_layer"}
    /\ items[last.item].role = (IF last.op = "add_factor" THEN "dimension" ELSE "factor")
    /\ ChildCount(items, last.item) >= 2
    /\ ProperHierarchy
    /\ Cardinality({items[i].role : i \in TreeItems}) = 3

\* C13: loadJsonData called while the view holds an edit session ends that
\* session: after the load the view holds no location and no original
\* value (so that a later cancel or commit has nothing to write).
C13_LoadInvalidatesSession ==
    [][(/\ Ran({"loadJsonData"})
        /\ current_editing_index # NoIndex
        /\ editor = current_editing_index)
        => (current_editing_index' = NoIndex /\ original_value' = None)]_vars

LayerWeightingFormatted(layer) ==
    IsTwoDecimal(Get(layer, "Factor Weighting", None))

FactorWeightingFormatted(factor) ==
    /\ IsTwoDecimal(Get(factor, "Dimension Weighting", None))
    /\ \A i \in DOMAIN ChildList(factor, "layers") :
          LayerWeightingFormatted(ChildList(factor, "layers")[i])

DimensionWeightingFormatted(dimension) ==
    /\ IsTwoDecimal(Get(dimension, "Analysis Weighting", None))
    /\ \A i \in DOMAIN ChildList(dimension, "factors") :
          FactorWeightingFormatted(ChildList(dimension, "factors")[i])

\* C15: in the document to_json() returns, in every reachable state, every
\* "Analysis Weighting", "Dimension Weighting" and "Factor Weighting" is a
\* 2-decimal fixed string; none is a raw number or an empty string.
C15_SerializedWeightingsFormatted ==
    LET r == ToJsonCall(items, rootItem)
    IN  r.raised = ""
            => \A i \in DOMAIN ChildList(r.json, "dimensions") :
                    DimensionWeightingFormatted(ChildList(r.json, "dimensions")[i])

\* The item whose child list the structural handler of this step changes
MutatedParent ==
    IF last'.op = "remove_item" THEN items[last'.item].parentItem ELSE last'.item

\* A structural handler ran in this step and changed a child list
StructuralMutation ==
    /\ Ran({"add_factor", "add_layer", "remove_item", "removeRow"})
    /\ last'.raised = ""
    /\ MutatedParent # NoItem

\* The sum of the weightings of the children of an item from child i on
RECURSIVE SumOfWeightings(_, _, _)
SumOfWeightings(h, parent, i) ==
    IF i >= ChildCount(h, parent) THEN Num(0, 1)
    ELSE LET w == Float(ItemData(h, Child(h, parent, i), 2))
             rest == SumOfWeightings(h, parent, i + 1)
         IN  Num(w.num * rest.den + rest.num * w.den, w.den * rest.den)

\* The weightings of all children of an item parse as numbers
ChildWeightingsParse(h, parent) ==
    \A k \in 0..(ChildCount(h, parent) - 1) :
        FloatRaises(ItemData(h, Child(h, parent, k), 2)) = "ok"

\* C16 as claimed: after add_factor, add_layer or remove_item the weighting
\* column of the parent whose children changed is the formatted sum of its
\* children's weightings, and the parent is green iff that sum is 1.
C16_MutationRederivesParent ==
    [][(/\ StructuralMutation
        /\ MutatedParent # rootItem
        /\ ChildWeightingsParse(items', MutatedParent))
       => LET sum == SumOfWeightings(items', MutatedParent, 0)
          IN  /\ ItemData(items', MutatedParent, 2) = Format2f(sum)
              /\ (items'[MutatedParent].font_color = Green) <=> (sum.num = sum.den)]_vars

\* C16 amended: add_factor, add_layer, remove_item and removeRow change the
\* child list of the parent only; the parent's columns and colour are what
\* they were, so a parent made green and "1.00" by auto-assign stays green
\* and "1.00" when a child is added or removed.
C16_MutationKeepsParentDisplay ==
    [][StructuralMutation
       => /\ items'[MutatedParent].itemData = items[MutatedParent].itemData
          /\ items'[MutatedParent].font_color = items[MutatedParent].font_color
          /\ ChildCount(items', MutatedParent) # ChildCount(items, MutatedParent)]_vars

C16_Witness ==
    /\ last.op = "add_layer"
    /\ items[last.item].role = "factor"
    /\ items[last.item].font_color = Green
    /\ ItemData(items, last.item, 2) = One2f
    /\ ChildCount(items, last.item) >= 2
    /\ ChildWeightingsParse(items, last.item)
    /\ SumOfWeightings(items, last.item, 0).num # SumOfWeightings(items, last.item, 0).den

\* The sum, in hundredths, of the 2-decimal weightings of the children of
\* an item from child i on
RECURSIVE SumHundredths(_, _, _)
SumHundredths(h, parent, i) ==
    IF i >= ChildCount(h, parent) THEN 0
    ELSE LET w == Float(ItemData(h, Child(h, parent, i), 2))
         IN  (100 * w.num) \div w.den + SumHundredths(h, parent, i + 1)

\* After auto-assign on the parent of this step, every child holds a
\* 2-decimal string and their sum is within `slack` hundredths of 1.00
SumWithin(slack) ==
    LET parent == last'.item
        sum == SumHundredths(items', parent, 0)
    IN  /\ \A k \in 0..(ChildCount(items', parent) - 1) :
              IsTwoDecimal(ItemData(items', Child(items', parent, k), 2))
        /\ sum - 100 <= slack
        /\ 100 - sum <= slack

\* C17 as claimed: for every child count N > 0, after auto-assign the sum
\* of the children's stored 2-decimal weightings is within 0.05 of 1.00.
C17_AutoAssignSumNearOne ==
    [][(/\ Ran({"auto_assign_factor_weightings", "auto_assign_layer_weightings"})
        /\ ChildCount(items, last'.item) > 0)
       => SumWithin(5)]_vars

\* C17 amended: for every child count N from 1 to 17, after auto-assign the
\* sum of the children's stored 2-decimal weightings is within 0.05 of
\* 1.00; for every N it is within N/2 hundredths of 1.00.
C17_AutoAssignSumNearOneUpTo17 ==
    [][(/\ Ran({"auto_assign_factor_weightings", "auto_assign_layer_weightings"})
        /\ ChildCount(items, last'.item) > 0)
       => /\ ChildCount(items, last'.item) <= 17 => SumWithin(5)
          /\ SumWithin((ChildCount(items, last'.item) + 1) \div 2)]_vars

C17_Witness ==
    /\ last.op \in {"auto_assign_factor_weightings", "auto_assign_layer_weightings"}
    /\ ChildCount(items, last.item) = 15
    /\ SumHundredths(items, last.item, 0) = 105

\* The lookup of this step was handed a row or a column out of range
OutOfRange ==
    LET item == last'.item
    IN  IF last'.op = "data" THEN last'.column \notin 0..(ItemColumnCount(items, item) - 1)
        ELSE IF last'.op = "index"
        THEN \/ last'.value.num \notin 0..(ChildCount(items, item) - 1)
             \/ last'.column \notin 0..(ColumnCount(items, rootItem) - 1)
        ELSE last'.value.num \notin 0..(ChildCount(items, item) - 1)

\* C18: child(row), data(column), index(row, column, parent) and
\* removeRow(row, parent) with a row or column out of range raise nothing,
\* leave the tree as it was and return the empty value (None, or the
\* invalid index).
C18_LookupOutOfRangeIsSentinel ==
    [][(Ran({"child", "data", "index", "removeRow"}) /\ OutOfRange)
       => /\ last'.raised = ""
          /\ items' = items
          /\ last'.ret = (IF last'.op = "index" THEN [index |-> NoIndex] ELSE None)]_vars

\* The text holds "Workflow Completed" at some position
HoldsWorkflowCompleted(text) ==
    \E k \in 1..Len(text) :
        /\ k + 17 <= Len(text)
        /\ <<text[k], text[k + 1], text[k + 2], text[k + 3], text[k + 4], text[k + 5],
             text[k + 6], text[k + 7]>> = <<"W", "o", "r", "k", "f", "l", "o", "w">>
        /\ text[k + 8] = " "
        /\ <<text[k + 9], text[k + 10], text[k + 11], text[k + 12], text[k + 13],
             text[k + 14], text[k + 15], text[k + 16], text[k + 17]>>
                = <<"C", "o", "m", "p", "l", "e", "t", "e", "d">>

\* The status column of the item is the done glyph if the object's result
\* field holds the marker text, the pending glyph if not
GlyphMatches(item, object, result_key) ==
    ItemData(items, item, 1)
        = (IF HoldsWorkflowCompleted(Get(object, result_key, EmptyStr).str)
           THEN StatusDone ELSE StatusPending)

\* C19: right after loadJsonData(D) the status column of every dimension
\* and factor item is the done glyph iff the "Result" string of its object
\* in D contains "Workflow Completed", of every layer item iff its
\* "Indicator Result" does; it is the pending glyph otherwise.
C19_StatusGlyphFromResult ==
    last.op \in {"__init__", "loadJsonData"}
        => LET dimensions == ChildList(last.value, "dimensions")
           IN  /\ ChildCount(items, rootItem) = Len(dimensions)
               /\ \A d \in DOMAIN dimensions :
                    LET dimension_item == Child(items, rootItem, d - 1)
                        factors == ChildList(dimensions[d], "factors")
                    IN  /\ GlyphMatches(dimension_item, dimensions[d], "Result")
                        /\ ChildCount(items, dimension_item) = Len(factors)
                        /\ \A f \in DOMAIN factors :
                             LET factor_item == Child(items, dimension_item, f - 1)
                                 layers == ChildList(factors[f], "layers")
                             IN  /\ GlyphMatches(factor_item, factors[f], "Result")
                                 /\ ChildCount(items, factor_item) = Len(layers)
                                 /\ \A l \in DOMAIN layers :
                                      GlyphMatches(Child(items, factor_item, l - 1),
                                                   layers[l], "Indicator Result")

C19_Witness ==
    /\ last.op = "loadJsonData"
    /\ \E i \in Factors :
          /\ ItemData(items, i, 1) = StatusDone
          /\ ItemData(items, items[i].parentItem, 1) = StatusDone
          /\ ChildCount(items, i) = 2
          /\ ItemData(items, Child(items, i, 0), 1) = StatusDone
          /\ ItemData(items, Child(items, i, 1), 1) = StatusPending

\* C20: a cancel gesture in an edit session (the Escape key, or the editor
\* closed with the revert hint) writes the original value back to the
\* location once, raises nothing and leaves the view with no location and
\* no original value.
C20_CancelEndsSession ==
    [][(/\ Ran({"keyPressEvent", "closeEditor"})
        /\ current_editing_index # NoIndex
        /\ last'.item # NoItem)
       => /\ items' = ModelSetData(items, current_editing_index, original_value).h
          /\ last'.raised = ""
          /\ current_editing_index' = NoIndex
          /\ original_value' = None]_vars

\* The positions at which an item stands in the child list of a parent
PlacesIn(parent, item) == {k \in DOMAIN items[parent].childItems : items[parent].childItems[k] = item}

\* The items met from an item by following parentItem at most n times
RECURSIVE AncestorsWithin(_, _)
AncestorsWithin(item, n) ==
    IF n = 0 \/ items[item].parentItem = NoItem \/ items[item].parentItem \notin DOMAIN items
    THEN {}
    ELSE {items[item].parentItem} \cup AncestorsWithin(items[item].parentItem, n - 1)

\* C21: in every reachable state the items reachable from the root form a
\* strict tree: the root stands in no child list and has no parent, every
\* other reachable item stands once in the child list of exactly one
\* reachable item, which is its parentItem, and no item is its own ancestor.
C21_StrictTree ==
    LET tree == Reachable(items, rootItem)
    IN  /\ items[rootItem].parentItem = NoItem
        /\ \A p \in tree : PlacesIn(p, rootItem) = {}
        /\ \A i \in tree \ {rootItem} :
              /\ Cardinality({p \in tree : PlacesIn(p, i) # {}}) = 1
              /\ items[i].parentItem \in tree
              /\ Cardinality(PlacesIn(items[i].parentItem, i)) = 1
        /\ \A i \in tree : i \notin AncestorsWithin(i, Cardinality(DOMAIN items))

C21_Witness ==
    /\ last.op \in {"remove_item", "removeRow"}
    /\ last.raised = ""
    /\ steps = 2
    /\ Cardinality(Reachable(items, rootItem)) >= 4
    /\ Cardinality(DOMAIN items) > Cardinality(Reachable(items, rootItem))
    /\ \E i \in Factors : ChildCount(items, i) > 0

\* C22: in every reachable state every item of the tree other than the
\* root has four columns: name, status glyph, weighting, and an attribute
\* bag that is a mapping; items made by add_dimension, add_factor and
\* add_layer under a parent of the right role as well as items made by
\* loadJsonData.
C22_FourColumns ==
    ProperHierarchy
        => \A i \in TreeItems :
                /\ ItemColumnCount(items, i) = 4
                /\ IsDict(ItemData(items, i, 3))

\* C23: to_json() is a pure query: a call that returns a document leaves
\* every item's columns, attribute bag, colour, children and parent as
\* they were, and a second call returns the same document.
C23_ToJsonIsPure ==
    [][(Ran({"to_json"}) /\ last'.raised = "")
       => /\ items' = items
          /\ rootItem' = rootItem
          /\ ToJsonCall(items', rootItem').json = ToJsonCall(items, rootItem).json]_vars

\* The direct children of an item
ChildrenOf(h, item) == {h[item].childItems[k] : k \in DOMAIN h[item].childItems}

\* C24: the auto-assign and clear operations on a parent p change only the
\* weighting column of p and of p's direct children and the colour of p:
\* no item is made or dropped, and names, status glyphs, attribute bags,
\* child lists, parents, roles, the children's colours and everything of
\* every other item are what they were.
C24_BulkOperationFrame ==
    [][Ran({"clear_factor_weightings", "auto_assign_factor_weightings",
            "clear_layer_weightings", "auto_assign_layer_weightings"})
       => LET p == last'.item
              family == {p} \cup ChildrenOf(items, p)
          IN  /\ rootItem' = rootItem
              /\ DOMAIN items' = DOMAIN items
              /\ \A i \in DOMAIN items :
                    /\ items'[i].role = items[i].role
                    /\ items'[i].parentItem = items[i].parentItem
                    /\ items'[i].childItems = items[i].childItems
                    /\ i # p => items'[i].font_color = items[i].font_color
                    /\ Len(items'[i].itemData) = Len(items[i].itemData)
                    /\ \A k \in DOMAIN items[i].itemData :
                          (k # 3 \/ i \notin family)
                              => items'[i].itemData[k] = items[i].itemData[k]]_vars

C24_Witness ==
    /\ last.op \in {"clear_factor_weightings", "auto_assign_factor_weightings"}
    /\ \E f \in ChildrenOf(items, last.item) :
          /\ IsTwoDecimal(ItemData(items, f, 2))
          /\ items[f].font_color = Red
          /\ items[last.item].font_color # items[f].font_color
          /\ \E l \in ChildrenOf(items, f) : ItemData(items, l, 2) = Num(5, 10)

\* C25: while the view is editing a location (its editor is open there), a
\* call of edit for another location, or one the view declines, leaves the
\* held location and original value as they are, so that a later cancel
\* restores the first location's value.
C25_SecondEditKeepsSession ==
    [][(/\ Ran({"edit"})
        /\ current_editing_index # NoIndex
        /\ editor = current_editing_index
        /\ \/ Index(last'.item, last'.column) # current_editing_index
           \/ last'.ret = Bool(FALSE))
       => /\ current_editing_index' = current_editing_index
          /\ original_value' = original_value]_vars

====
